---- MODULE Spec2Model ----
(***************************************************************************)
(* Model of packages/create-cli/scripts/maintenance/fix-formatting.py:     *)
(* the regular-expression pipeline of fix_template_formatting and the      *)
(* directory walk of main.                                                  *)
(*                                                                         *)
(* A text (file content, file name) is a sequence of one-character         *)
(* strings.  re.sub is modelled by what it does: a left-to-right scan that *)
(* replaces every non-overlapping match of the rule's pattern.             *)
(***************************************************************************)
EXTENDS Integers, Sequences, FiniteSets

VARIABLES
    fs,           \* the files below templates/: path -> content
    pc,           \* position of the running script
    todo,         \* matching paths rglob has not yielded yet
    cur,          \* hbs_file / file_path of the call in progress
    content,      \* the local variable content of fix_template_formatting
    k,            \* number of the next substitution (1..10) while pc = "rules"
    fixed_count,  \* the local variable fixed_count of main
    out,          \* lines printed so far in this run
    opened,       \* open() calls of this run, as <<path, mode>>
    visited,      \* paths yielded by rglob in this run, in order
    start,        \* fs as it was when this run began
    orig,         \* fs as it was before the first run
    run,          \* number of this run of the script
    failed        \* the path whose open()/write raised, or NoFile

vars == <<fs, pc, todo, cur, content, k, fixed_count, out, opened, visited,
          start, orig, run, failed>>

----------------------------------------------------------------------------
(* Characters *)

\* \s of Python's re on str patterns (the ASCII members TLA+ can write)
Whitespace == {" ", "\t", "\n", "\r", "\f"}

\* [a-zA-Z]
Letters ==
    {"a","b","c","d","e","f","g","h","i","j","k","l","m",
     "n","o","p","q","r","s","t","u","v","w","x","y","z",
     "A","B","C","D","E","F","G","H","I","J","K","L","M",
     "N","O","P","Q","R","S","T","U","V","W","X","Y","Z"}

\* a pattern that knows single quotes only
QuotesSingleOnly == {"'"}

\* ['\"]
Quotes == {"'", "\""}

NL == "\n"

Min(S) == CHOOSE x \in S : \A y \in S : x <= y
Max(S) == CHOOSE x \in S : \A y \in S : x >= y

\* the literal lit occurs in s at position p
StartsWith(s, p, lit) ==
    /\ p >= 1
    /\ p + Len(lit) - 1 <= Len(s)
    /\ \A i \in 1..Len(lit) : s[p + i - 1] = lit[i]

\* a greedy character class: the first position >= p whose character is
\* not in C (Len(s)+1 when the run reaches the end of s)
SpanIn(s, p, C) ==
    LET stops == {i \in p..Len(s) : s[i] \notin C}
    IN  IF stops = {} THEN Len(s) + 1 ELSE Min(stops)

\* the same for a negated class [^...]
SpanNotIn(s, p, C) ==
    LET stops == {i \in p..Len(s) : s[i] \in C}
    IN  IF stops = {} THEN Len(s) + 1 ELSE Min(stops)

kwImport == <<"i","m","p","o","r","t">>
kwFrom == <<"f","r","o","m">>
kwExport == <<"e","x","p","o","r","t">>
kwDescribe == <<"d","e","s","c","r","i","b","e","(">>
kwIt == <<"i","t","(">>
kwBeforeEach == <<"b","e","f","o","r","e","E","a","c","h","(">>

----------------------------------------------------------------------------
(* The ten patterns.  MatchN(s, p) is the position just after the match of *)
(* pattern N that starts at p, or 0 when the pattern does not match at p.  *)

\* from\s+['\"][^'\"]+['\"] at q: the position after the closing quote, or 0
FromClause(s, q) ==
    IF ~StartsWith(s, q, kwFrom) THEN 0
    ELSE LET w == q + 4
             r == SpanIn(s, w, Whitespace)
         IN  IF r = w \/ r > Len(s) THEN 0
             ELSE IF s[r] \notin Quotes THEN 0
             ELSE LET t == SpanNotIn(s, r + 1, Quotes)
                  IN  IF t = r + 1 \/ t > Len(s) THEN 0 ELSE t + 1

\* (import[^;]+from\s+['\"][^'\"]+['\"]): [^;]+ is greedy, so the last
\* position of "from" that lets the rest match is the one taken
Match1(s, p) ==
    IF ~StartsWith(s, p, kwImport) THEN 0
    ELSE LET a == p + 6
             lim == SpanNotIn(s, a, {";"})
             qs == {q \in (a + 1)..lim : FromClause(s, q) # 0}
         IN  IF qs = {} THEN 0 ELSE FromClause(s, Max(qs))

\* \s+(kw): the whitespace run starting at p, then the keyword
MatchWsKw(s, p, kw) ==
    LET r == SpanIn(s, p, Whitespace)
    IN  IF r = p THEN 0
        ELSE IF StartsWith(s, r, kw) THEN r + Len(kw) ELSE 0

\* \s+(import\s) and \s+(export\s): the keyword is followed by one \s
MatchWsKwWs(s, p, kw) ==
    LET e == MatchWsKw(s, p, kw)
    IN  IF e = 0 \/ e > Len(s) THEN 0
        ELSE IF s[e] \in Whitespace THEN e + 1 ELSE 0

\* \}\)\s+
Match7(s, p) ==
    IF ~StartsWith(s, p, <<"}", ")">>) THEN 0
    ELSE LET r == SpanIn(s, p + 2, Whitespace)
         IN  IF r = p + 2 THEN 0 ELSE r

\* ;\s+([a-zA-Z]): the whitespace made mandatory
Match8Plus(s, p) ==
    IF s[p] # ";" THEN 0
    ELSE LET r == SpanIn(s, p + 1, Whitespace)
         IN  IF r > p + 1 /\ r <= Len(s) /\ s[r] \in Letters THEN r + 1 ELSE 0

\* ;\s*([a-zA-Z])
Match8(s, p) ==
    IF s[p] # ";" THEN 0
    ELSE LET r == SpanIn(s, p + 1, Whitespace)
         IN  IF r <= Len(s) /\ s[r] \in Letters THEN r + 1 ELSE 0

\* \}\s+([a-zA-Z])
Match9(s, p) ==
    IF s[p] # "}" THEN 0
    ELSE LET r == SpanIn(s, p + 1, Whitespace)
         IN  IF r > p + 1 /\ r <= Len(s) /\ s[r] \in Letters THEN r + 1 ELSE 0

\* \n\n\n\n+: one line break too many in the pattern
Match10Four(s, p) ==
    LET r == SpanIn(s, p, {NL})
    IN  IF r >= p + 4 THEN r ELSE 0

\* \n\n\n+
Match10(s, p) ==
    LET r == SpanIn(s, p, {NL})
    IN  IF r >= p + 3 THEN r ELSE 0

Match(n, s, p) ==
    CASE n = 1 -> Match1(s, p)
      [] n = 2 -> MatchWsKwWs(s, p, kwImport)
      [] n = 3 -> MatchWsKwWs(s, p, kwExport)
      [] n = 4 -> MatchWsKw(s, p, kwDescribe)
      [] n = 5 -> MatchWsKw(s, p, kwIt)
      [] n = 6 -> MatchWsKw(s, p, kwBeforeEach)
      [] n = 7 -> Match7(s, p)
      [] n = 8 -> Match8(s, p)
      [] n = 9 -> Match9(s, p)
      [] n = 10 -> Match10(s, p)

\* r"\1": the line break left out of the replacement
Repl1NoBreak(s, p, e) == SubSeq(s, p, e - 1)

\* r"\1\n" of rule 1: the whole import statement, then a line break
Repl1(s, p, e) == SubSeq(s, p, e - 1) \o <<NL>>

\* the replacement template of rule n expanded for the match s[p..e-1]
Repl(n, s, p, e) ==
    CASE n = 1 -> Repl1(s, p, e)
      [] n = 2 -> <<NL>> \o kwImport \o <<s[e - 1]>>
      [] n = 3 -> <<NL>> \o kwExport \o <<s[e - 1]>>
      [] n = 4 -> <<NL, NL>> \o kwDescribe
      [] n = 5 -> <<NL, NL, " ", " ">> \o kwIt
      [] n = 6 -> <<NL, NL, " ", " ">> \o kwBeforeEach
      [] n = 7 -> <<"}", ")", NL>>
      [] n = 8 -> <<";", NL, s[e - 1]>>
      [] n = 9 -> <<"}", NL, s[e - 1]>>
      [] n = 10 -> <<NL, NL>>

\* re.sub from position p on: every non-overlapping match, left to right.
\* The text up to the leftmost match at or after p is copied, the match is
\* replaced, and the scan goes on just after the match.
RECURSIVE SubFrom(_, _, _)
SubFrom(n, s, p) ==
    LET hits == {q \in p..Len(s) : Match(n, s, q) # 0}
    IN  IF hits = {} THEN SubSeq(s, p, Len(s))
        ELSE LET m == Min(hits)
                 e == Match(n, s, m)
             IN  SubSeq(s, p, m - 1) \o Repl(n, s, m, e) \o SubFrom(n, s, e)

\* content = re.sub(pattern n, replacement n, content)
ReSub(n, s) == SubFrom(n, s, 1)

NumRules == 10

\* rules 1..n applied in order, each on the previous one's output
RECURSIVE RulesUpTo(_, _)
RulesUpTo(n, s) == IF n = 0 THEN s ELSE ReSub(n, RulesUpTo(n - 1, s))

applyRules(s) == RulesUpTo(NumRules, s)

\* len(content.split('\n'))
Segments(s) == Cardinality({i \in 1..Len(s) : s[i] = NL}) + 1

GateLimit == 10

\* no gate at all
shouldProcessAlways(s) == TRUE

\* the gate counting line breaks (content.count('\n')) instead of segments
shouldProcessCountBreaks(s) == ~(Segments(s) - 1 > GateLimit)

\* the file is processed (not skipped)
shouldProcess(s) == ~(Segments(s) > GateLimit)

----------------------------------------------------------------------------
(* The tree below templates/ *)

\* the paths a tree below templates/ may hold
Files == {"a.hbs", "sub/b.hbs", "sub/c.hbs", "notes.txt", "sub/x.hbs.bak"}

NoFile == "(none)"

\* the last component of each path
FileName(f) ==
    CASE f = "a.hbs" -> <<"a",".","h","b","s">>
      [] f = "sub/b.hbs" -> <<"b",".","h","b","s">>
      [] f = "sub/c.hbs" -> <<"c",".","h","b","s">>
      [] f = "notes.txt" -> <<"n","o","t","e","s",".","t","x","t">>
      [] f = "sub/x.hbs.bak" -> <<"x",".","h","b","s",".","b","a","k">>

\* the pattern "*.hbs*": .hbs anywhere in the name
MatchesNameContains(n) ==
    \E i \in 1..Len(n) : StartsWith(n, i, <<".","h","b","s">>)

\* the pattern "*.hbs" of rglob: the name ends with .hbs
MatchesName(n) ==
    /\ Len(n) >= 4
    /\ SubSeq(n, Len(n) - 3, Len(n)) = <<".","h","b","s">>

\* the paths templates_dir.rglob("*.hbs") yields: the files of the tree
\* whose name matches
Matching == {f \in DOMAIN fs : MatchesName(FileName(f))}

----------------------------------------------------------------------------
(* Contents *)

NLs(n) == [i \in 1..n |-> NL]

\* n lines "x", each ended by a line break
XLines(n) == [i \in 1..(2 * n) |-> IF i % 2 = 1 THEN "x" ELSE NL]

\* const x = 1;import { y } from "m";export const z = 2;
SampleImportExport ==
    <<"c","o","n","s","t"," ","x"," ","="," ","1",";","i","m","p","o","r",
      "t"," ","{"," ","y"," ","}"," ","f","r","o","m"," ","\"","m","\"",";",
      "e","x","p","o","r","t"," ","c","o","n","s","t"," ","z"," ","="," ",
      "2",";">>

\* const a = 1;const b = 2;
SampleTerminator ==
    <<"c","o","n","s","t"," ","a"," ","="," ","1",";","c","o","n","s","t",
      " ","b"," ","="," ","2",";">>

\* import a from "m"
SampleImport ==
    <<"i","m","p","o","r","t"," ","a"," ","f","r","o","m"," ","\"","m",
      "\"">>

\* describe('s', () => { beforeEach(() => {}) it('a', () => {}) it('b', () => {}) })
SampleSuite ==
    <<"d","e","s","c","r","i","b","e","(","'","s","'",","," ","(",")"," ",
      "=",">"," ","{"," ","b","e","f","o","r","e","E","a","c","h","(","(",
      ")"," ","=",">"," ","{","}",")"," ","i","t","(","'","a","'",","," ",
      "(",")"," ","=",">"," ","{","}",")"," ","i","t","(","'","b","'",",",
      " ","(",")"," ","=",">"," ","{","}",")"," ","}",")">>

\* no rule matches
SamplePlain == <<"o","k">>

\* 9 line breaks (10 segments), and rule 8 adds one more
SampleTen == XLines(9) \o <<";","a">>

\* 10 line breaks (11 segments)
SampleEleven == XLines(10) \o <<";","a">>

\* 11 line breaks (12 segments)
SampleTwelve == XLines(11) \o <<";","a">>

\* the contents the files of the tree start with
MainSamples == {SampleImport, SamplePlain, SampleTen, SampleEleven, SampleTwelve}

\* content of the files that do not match *.hbs: every rule 8 would change it
OtherContent == <<"a",";","b">>

Tokens ==
    {<<" ">>, <<NL>>, <<";">>, <<"}">>, <<"}", ")">>, <<"a">>, kwIt,
     NLs(4), NLs(5)}

MaxTokens == 4

RECURSIVE TokenStrings(_)
TokenStrings(n) ==
    IF n = 0 THEN {<<>>}
    ELSE LET prev == TokenStrings(n - 1)
         IN  prev \cup {s \o t : s \in prev, t \in Tokens}

\* the contents fix_template_formatting is called on
Inputs ==
    TokenStrings(MaxTokens) \cup MainSamples
        \cup {SampleImportExport, SampleTerminator, SampleSuite}

----------------------------------------------------------------------------
(* main and fix_template_formatting *)

FixedLine(f) == [kind |-> "Fixed:", path |-> f, count |-> 0]
SummaryLine(n) == [kind |-> "Fixed files", path |-> NoFile, count |-> n]

MaxRuns == 2

Init ==
    /\ \E tree \in SUBSET Files :
         LET hbs == {f \in tree : MatchesName(FileName(f))}
         IN  /\ \E g \in [hbs -> MainSamples] :
                  fs = [f \in tree |-> IF f \in hbs THEN g[f]
                                                  ELSE OtherContent]
             /\ todo = hbs
    /\ pc = "for"
    /\ cur = NoFile
    /\ content = <<>>
    /\ k = 0
    /\ fixed_count = 0
    /\ out = <<>>
    /\ opened = {}
    /\ visited = <<>>
    /\ start = fs
    /\ orig = fs
    /\ run = 1
    /\ failed = NoFile

\* for hbs_file in templates_dir.rglob("*.hbs"): the next path, in any order
NextFile ==
    /\ pc = "for"
    /\ \E f \in todo :
         /\ cur' = f
         /\ todo' = todo \ {f}
         /\ visited' = Append(visited, f)
    /\ pc' = "open_r"
    /\ UNCHANGED <<fs, content, k, fixed_count, out, opened, start, orig, run,
                   failed>>

\* with open(file_path, 'r') ...: content = f.read()
ReadOk ==
    /\ pc = "open_r"
    /\ opened' = opened \cup {<<cur, "r">>}
    /\ content' = fs[cur]
    /\ pc' = "gate"
    /\ UNCHANGED <<fs, todo, cur, k, fixed_count, out, visited, start, orig,
                   run, failed>>

\* the failure caught around the call: the loop goes on with the next path
ReadFailSkipped ==
    /\ pc = "open_r"
    /\ opened' = opened \cup {<<cur, "r">>}
    /\ failed' = cur
    /\ pc' = "for"
    /\ UNCHANGED <<fs, todo, cur, content, k, fixed_count, out, visited,
                   start, orig, run>>

\* open or read raises: nothing catches it, the script ends
ReadFail ==
    /\ pc = "open_r"
    /\ opened' = opened \cup {<<cur, "r">>}
    /\ failed' = cur
    /\ pc' = "aborted"
    /\ UNCHANGED <<fs, todo, cur, content, k, fixed_count, out, visited,
                   start, orig, run>>

\* lines = content.split('\n'); if len(lines) > 10: return False
Gate ==
    /\ pc = "gate"
    /\ IF shouldProcess(content)
       THEN pc' = "rules" /\ k' = 1 /\ content' = content
       ELSE pc' = "ret_false" /\ k' = 0 /\ content' = <<>>
    /\ UNCHANGED <<fs, todo, cur, fixed_count, out, opened, visited, start,
                   orig, run, failed>>

\* the k-th content = re.sub(...)
ApplyRule ==
    /\ pc = "rules"
    /\ content' = ReSub(k, content)
    /\ IF k = NumRules
       THEN pc' = "open_w" /\ k' = 0
       ELSE pc' = "rules" /\ k' = k + 1
    /\ UNCHANGED <<fs, todo, cur, fixed_count, out, opened, visited, start,
                   orig, run, failed>>

\* with open(file_path, 'w') ...: f.write(content); return True
WriteOk ==
    /\ pc = "open_w"
    /\ opened' = opened \cup {<<cur, "w">>}
    /\ fs' = [fs EXCEPT ![cur] = content]
    /\ content' = <<>>
    /\ pc' = "ret_true"
    /\ UNCHANGED <<todo, cur, k, fixed_count, out, visited, start, orig, run,
                   failed>>

\* open for writing raises (the file is as it was), or the write raises
\* after open truncated the file
WriteFail ==
    /\ pc = "open_w"
    /\ opened' = opened \cup {<<cur, "w">>}
    /\ \E left \in {fs[cur], <<>>} : fs' = [fs EXCEPT ![cur] = left]
    /\ failed' = cur
    /\ pc' = "aborted"
    /\ UNCHANGED <<todo, cur, content, k, fixed_count, out, visited, start,
                   orig, run>>

\* if fix_template_formatting(hbs_file): print(...); fixed_count += 1
PrintFixed ==
    /\ pc = "ret_true"
    /\ out' = Append(out, FixedLine(cur))
    /\ fixed_count' = fixed_count + 1
    /\ pc' = "for"
    /\ UNCHANGED <<fs, todo, cur, content, k, opened, visited, start, orig,
                   run, failed>>

\* fixed_count += 1 outside the if: skipped files are counted too
SkippedCounted ==
    /\ pc = "ret_false"
    /\ fixed_count' = fixed_count + 1
    /\ pc' = "for"
    /\ UNCHANGED <<fs, todo, cur, content, k, out, opened, visited, start,
                   orig, run, failed>>

\* the call returned False: on to the next path
Skipped ==
    /\ pc = "ret_false"
    /\ pc' = "for"
    /\ UNCHANGED <<fs, todo, cur, content, k, fixed_count, out, opened,
                   visited, start, orig, run, failed>>

\* the loop is over: print(f"\nFixed {fixed_count} files")
Summary ==
    /\ pc = "for"
    /\ todo = {}
    /\ out' = Append(out, SummaryLine(fixed_count))
    /\ pc' = "done"
    /\ UNCHANGED <<fs, todo, cur, content, k, fixed_count, opened, visited,
                   start, orig, run, failed>>

\* the script is run again over the tree the last run left
Rerun ==
    /\ pc = "done"
    /\ run < MaxRuns
    /\ run' = run + 1
    /\ start' = fs
    /\ todo' = Matching
    /\ cur' = NoFile
    /\ fixed_count' = 0
    /\ out' = <<>>
    /\ opened' = {}
    /\ visited' = <<>>
    /\ pc' = "for"
    /\ UNCHANGED <<fs, content, k, orig, failed>>

Next ==
    \/ NextFile
    \/ ReadOk
    \/ ReadFail
    \/ Gate
    \/ ApplyRule
    \/ WriteOk
    \/ WriteFail
    \/ PrintFixed
    \/ Skipped
    \/ Summary
    \/ Rerun

Spec == Init /\ [][Next]_vars

\* one call fix_template_formatting(Target) on a file of any content
Target == "a.hbs"

FixInit ==
    /\ \E c \in Inputs : fs = [f \in {Target} |-> c]
    /\ pc = "open_r"
    /\ todo = {}
    /\ cur = Target
    /\ content = <<>>
    /\ k = 0
    /\ fixed_count = 0
    /\ out = <<>>
    /\ opened = {}
    /\ visited = <<Target>>
    /\ start = fs
    /\ orig = fs
    /\ run = 1
    /\ failed = NoFile

FixNext ==
    \/ ReadOk
    \/ Gate
    \/ ApplyRule
    \/ WriteOk

FixSpec == FixInit /\ [][FixNext]_vars

----------------------------------------------------------------------------
(* Properties *)

\* content.count('\n')
LineBreaks(s) == Cardinality({i \in 1..Len(s) : s[i] = NL})

Wrote(f) == <<f, "w">> \in opened
WasRead(f) == <<f, "r">> \in opened

\* the paths of the "Fixed: <path>" lines printed so far
FixedPaths == {out[i].path : i \in {j \in 1..Len(out) : out[j].kind = "Fixed:"}}

NoTripleBreak(s) ==
    \A i \in 1..(Len(s) - 2) : ~(s[i] = NL /\ s[i + 1] = NL /\ s[i + 2] = NL)

\* the i-th smallest member of a set of numbers
Nth(S, i) == CHOOSE x \in S : Cardinality({y \in S : y <= x}) = i

\* s without every line break that follows two line breaks: each run of
\* three or more line breaks cut down to two, the rest as it is
Squeeze(s) ==
    LET keep == {i \in 1..Len(s) :
                   ~(i >= 3 /\ s[i] = NL /\ s[i - 1] = NL /\ s[i - 2] = NL)}
    IN  [j \in 1..Cardinality(keep) |-> s[Nth(keep, j)]]

\* the positions where the literal lit occurs in s
Occ(s, lit) == {p \in 1..Len(s) : StartsWith(s, p, lit)}

\* the name ends with .hbs, spelled out character by character
HasHbsSuffix(n) ==
    /\ Len(n) >= 4
    /\ n[Len(n) - 3] = "."
    /\ n[Len(n) - 2] = "h"
    /\ n[Len(n) - 1] = "b"
    /\ n[Len(n)] = "s"

\* C1: a file whose content splits on '\n' into more than 10 segments
\* (every content with more than 10 line breaks is one) is left as it was,
\* is not opened for writing, makes the call return False (the call never
\* gets to the rules, the write or the True return) and gets no "Fixed:"
\* line.
SkipInvariant ==
    \A f \in DOMAIN fs :
        (Segments(start[f]) > 10 \/ LineBreaks(start[f]) > 10) =>
            /\ fs[f] = start[f]
            /\ ~Wrote(f)
            /\ f \notin FixedPaths
            /\ (cur = f => pc \notin {"rules", "open_w", "ret_true"})

SkipWitness ==
    /\ pc = "ret_false"
    /\ LineBreaks(start[cur]) > 10
    /\ WasRead(cur)

\* C2: a run that completes has printed one "Fixed:" line for each of the
\* M matching files that pass the gate, each path once and no other path,
\* and then the summary with the count M.
CountAccuracy ==
    pc = "done" =>
        LET M == {f \in DOMAIN fs : HasHbsSuffix(FileName(f))
                                  /\ Segments(start[f]) <= 10}
            n == Len(out) - 1
        IN  /\ n = Cardinality(M)
            /\ \A i \in 1..n : out[i].kind = "Fixed:" /\ out[i].path \in M
            /\ \A i, j \in 1..n : out[i].path = out[j].path => i = j
            /\ out[n + 1] = SummaryLine(Cardinality(M))

\* a finished run that fixed two of three files, one of them a file the
\* rules left as it was
CountWitness ==
    /\ pc = "done"
    /\ Cardinality(FixedPaths) = 2
    /\ \E f \in FixedPaths : fs[f] = start[f]
    /\ \E f \in FixedPaths : fs[f] # start[f]
    /\ \E f \in Matching : Segments(start[f]) > 10

\* C3: a file whose name does not end with .hbs is never opened, for
\* reading or for writing, and keeps its content.
NonMatchingUntouched ==
    \A f \in DOMAIN fs :
        ~HasHbsSuffix(FileName(f)) =>
            /\ ~WasRead(f)
            /\ ~Wrote(f)
            /\ fs[f] = orig[f]

\* a finished run that rewrote a matching file, beside a file of another
\* suffix that the rules would have changed
NonMatchingWitness ==
    /\ pc = "done"
    /\ \E f \in DOMAIN fs : HasHbsSuffix(FileName(f)) /\ fs[f] # start[f]
    /\ \E g \in DOMAIN fs : /\ ~HasHbsSuffix(FileName(g))
                        /\ applyRules(fs[g]) # fs[g]

\* C4: the content written has no three line breaks in a row, and it is
\* the content after rules 1-9 with every run of three or more line breaks
\* cut down to exactly two.
BlankLineCollapse ==
    pc = "ret_true" =>
        /\ NoTripleBreak(fs[cur])
        /\ fs[cur] = Squeeze(RulesUpTo(9, start[cur]))

CollapseWitness ==
    /\ pc = "ret_true"
    /\ ~NoTripleBreak(RulesUpTo(9, start[cur]))
    /\ fs[cur] # <<NL, NL>>

\* C5: for const x = 1;import { y } from "m";export const z = 2; the
\* content written has import and export each right after a line break,
\* and a line break right after the closing quote of "m".
ImportExportSeparation ==
    (pc = "ret_true" /\ start[cur] = SampleImportExport) =>
        LET o == fs[cur]
            quotes == {i \in 1..Len(o) : o[i] = "\""}
        IN  /\ Cardinality(Occ(o, kwImport)) = 1
            /\ \A p \in Occ(o, kwImport) : p > 1 /\ o[p - 1] = NL
            /\ Cardinality(Occ(o, kwExport)) = 1
            /\ \A p \in Occ(o, kwExport) : p > 1 /\ o[p - 1] = NL
            /\ Cardinality(quotes) = 2
            /\ Max(quotes) < Len(o)
            /\ o[Max(quotes) + 1] = NL

ImportExportWitness ==
    /\ pc = "ret_true"
    /\ start[cur] = SampleImportExport
    /\ Wrote(cur)

\* const a = 1;
\* const b = 2;
SampleTerminatorFixed ==
    <<"c","o","n","s","t"," ","a"," ","="," ","1",";",NL,"c","o","n","s",
      "t"," ","b"," ","="," ","2",";">>

\* C6: in the content written, every ; followed by optional whitespace and
\* a letter has exactly one line break and nothing else before that
\* letter; const a = 1;const b = 2; becomes the two statements on two
\* lines.
TerminatorSplit ==
    pc = "ret_true" =>
        LET o == fs[cur]
        IN  /\ \A p \in 1..Len(o) :
                 o[p] = ";" =>
                     LET r == SpanIn(o, p + 1, Whitespace)
                     IN  (r <= Len(o) /\ o[r] \in Letters) =>
                             (r = p + 2 /\ o[p + 1] = NL)
            /\ start[cur] = SampleTerminator => o = SampleTerminatorFixed

\* a written content whose input had a ; and a letter with something but
\* one line break between them
TerminatorWitness ==
    /\ pc = "ret_true"
    /\ \E p \in 1..Len(start[cur]) :
         /\ start[cur][p] = ";"
         /\ LET r == SpanIn(start[cur], p + 1, Whitespace)
            IN  /\ r <= Len(start[cur])
                /\ start[cur][r] \in Letters
                /\ SubSeq(start[cur], p + 1, r - 1) # <<NL>>
    /\ \E p \in 1..Len(fs[cur]) : fs[cur][p] = ";"

\* C7: the pipeline is not idempotent: import a from "m" passes the gate,
\* the first run rewrites it, and a second run over the tree the first run
\* left rewrites it again, to a different content.
NonIdempotent ==
    \A f \in Matching :
        (run = 2 /\ pc = "done" /\ orig[f] = SampleImport) =>
            /\ Segments(orig[f]) <= 10
            /\ start[f] = applyRules(orig[f])
            /\ fs[f] = applyRules(start[f])
            /\ fs[f] # start[f]

NonIdempotentWitness ==
    /\ run = 2
    /\ pc = "done"
    /\ \E f \in Matching : orig[f] = SampleImport /\ Wrote(f) /\ fs[f] # start[f]

\* C8: once a read or a write has failed the run has stopped: no step is
\* left to take, every gate-passing file yielded before the failing one is
\* rewritten and has its "Fixed:" line, no file after it was opened or
\* changed, no other "Fixed:" line and no summary line was printed.
AbortNoRollback ==
    failed # NoFile =>
        LET n == Len(visited)
            earlier == {visited[i] : i \in 1..(n - 1)}
        IN  /\ pc = "aborted"
            /\ ~ENABLED Next
            /\ visited[n] = failed
            /\ \A f \in earlier :
                 Segments(start[f]) <= 10 =>
                     (fs[f] = applyRules(start[f]) /\ f \in FixedPaths)
            /\ FixedPaths \subseteq earlier
            /\ \A f \in DOMAIN fs \ (earlier \cup {failed}) :
                 ~WasRead(f) /\ ~Wrote(f) /\ fs[f] = start[f]
            /\ \A i \in 1..Len(out) : out[i].kind # "Fixed files"

\* the second of three files fails, after the first one was rewritten
AbortWitness ==
    /\ failed # NoFile
    /\ Len(visited) = 2
    /\ todo # {}
    /\ \E f \in FixedPaths : fs[f] # start[f]

\* C9: the call skips the file exactly when its content splits into more
\* than 10 segments: 10 segments are processed, written and reported, 11
\* are skipped and left alone; the gate sees the content as read and is
\* not asked again, whatever the rules make of it.
GateBoundary ==
    /\ pc \in {"rules", "open_w", "ret_true"} => Segments(start[cur]) <= 10
    /\ pc = "ret_false" =>
         (Segments(start[cur]) > 10 /\ fs = start /\ ~Wrote(cur))
    /\ pc = "ret_true" =>
         (Wrote(cur) /\ fs[cur] = applyRules(start[cur]))

\* a content of exactly 10 segments written back with more than 10
GateWitness ==
    /\ pc = "ret_true"
    /\ Segments(start[cur]) = 10
    /\ Segments(fs[cur]) > 10

\* The rules neither add nor drop an it(: the i-th it( of the content
\* written is the i-th it( of the content read.
ItCallsKept ==
    pc = "ret_true" =>
        Cardinality(Occ(fs[cur], kwIt)) = Cardinality(Occ(start[cur], kwIt))

\* C10: in the content written, every it( that had whitespace before it
\* in the content read has two line breaks and two spaces right before it:
\* rules 7, 8 and 9 leave what rule 5 inserted.
ItLayoutSurvives ==
    pc = "ret_true" =>
        LET c == start[cur]
            o == fs[cur]
        IN  \A p \in Occ(c, kwIt) :
                (p > 1 /\ c[p - 1] \in Whitespace) =>
                    LET q == Nth(Occ(o, kwIt),
                                 Cardinality({x \in Occ(c, kwIt) : x <= p}))
                    IN  /\ q >= 5
                        /\ SubSeq(o, q - 4, q - 1) = <<NL, NL, " ", " ">>

====
